---- MODULE Spec2Model ----
(***************************************************************************)
(* Model of src/board.rs: the packed Piece encoding and the validated      *)
(* Coordinate type.  The functions of board.rs are pure; the state machine *)
(* is a caller that holds one argument and applies the functions to it.    *)
(* All integers are u8: arithmetic is taken modulo 2^U8_BITS and an        *)
(* overflow is reported, bitwise operators work on U8_BITS bits.           *)
(***************************************************************************)
EXTENDS Integers, FiniteSets, Sequences, TLC

\* ------------------------------------------------------------------ u8 ---

\* width of the u8 type that Piece.value and Coordinate.value have
U8_BITS == 8

U8_MOD == 2 ^ U8_BITS

\* every value of the u8 type
U8 == 0 .. (U8_MOD - 1)

RECURSIVE BitAndN(_, _, _)
BitAndN(a, b, n) ==
    IF n = 0 THEN 0
    ELSE (IF a % 2 = 1 /\ b % 2 = 1 THEN 1 ELSE 0)
         + 2 * BitAndN(a \div 2, b \div 2, n - 1)

\* a & b on u8
BitAnd(a, b) == BitAndN(a, b, U8_BITS)

RECURSIVE BitOrN(_, _, _)
BitOrN(a, b, n) ==
    IF n = 0 THEN 0
    ELSE (IF a % 2 = 1 \/ b % 2 = 1 THEN 1 ELSE 0)
         + 2 * BitOrN(a \div 2, b \div 2, n - 1)

\* a | b on u8
BitOr(a, b) == BitOrN(a, b, U8_BITS)

\* a << n on u8 (n < U8_BITS): bits shifted out of the byte are lost
Shl(a, n) == (a * 2 ^ n) % U8_MOD

\* ----------------------------------------------------------- constants ---

MASK_TEAM == 8

SHIFT_TEAM == 3

MASK_CHESSMAN == 7

MASK_UNOCCUPIED == 240

BOARD_LENGTH == 8

NUM_TILES == BOARD_LENGTH * BOARD_LENGTH

\* ------------------------------------------------------ Team, Chessman ---

Team == {"White", "Black"}

Chessman == {"King", "Queen", "Bishop", "Knight", "Rook", "Pawn"}

\* team as u8
TeamAsU8(team) == IF team = "White" THEN 0 ELSE 1

\* chessman as u8
ChessmanAsU8(chessman) ==
    CASE chessman = "King"   -> 0
      [] chessman = "Queen"  -> 1
      [] chessman = "Bishop" -> 2
      [] chessman = "Knight" -> 3
      [] chessman = "Rook"   -> 4
      [] chessman = "Pawn"   -> 5

\* Option<(Team, Chessman)>
None == [tag |-> "None"]

Some(team, chessman) == [tag |-> "Some", team |-> team, chessman |-> chessman]

Occupants == {None} \cup {Some(t, c) : t \in Team, c \in Chessman}

\* the outcome of a call that panicked, and of a call not made yet
Panic == [tag |-> "Panic"]

NotCalled == [tag |-> "NotCalled"]

\* --------------------------------------------------------------- Piece ---

\* the struct Piece { value: u8 }
Piece(v) == [value |-> v]

NoPiece == [value |-> -1]

\* mutants of Piece::new
Piece_new_shift2(value) ==
    IF value.tag = "Some"
    THEN Piece(BitOr(Shl(TeamAsU8(value.team), 2), ChessmanAsU8(value.chessman)))
    ELSE Piece(MASK_UNOCCUPIED)

Piece_new_none_zero(value) ==
    IF value.tag = "Some"
    THEN Piece(BitOr(Shl(TeamAsU8(value.team), SHIFT_TEAM), ChessmanAsU8(value.chessman)))
    ELSE Piece(0)

Piece_new_off_by_one(value) ==
    IF value.tag = "Some"
    THEN Piece(BitOr(Shl(TeamAsU8(value.team), SHIFT_TEAM), ChessmanAsU8(value.chessman) + 1))
    ELSE Piece(MASK_UNOCCUPIED)

\* Piece::new
Piece_new(value) ==
    IF value.tag = "Some"
    THEN Piece(BitOr(Shl(TeamAsU8(value.team), SHIFT_TEAM), ChessmanAsU8(value.chessman)))
    ELSE Piece(MASK_UNOCCUPIED)

\* mutant of Piece::data: only the canonical empty byte is empty
Piece_data_canonical_only(self) ==
    IF self.value = MASK_UNOCCUPIED
    THEN None
    ELSE LET team == IF BitAnd(self.value, MASK_TEAM) = 0 THEN "White" ELSE "Black"
             bits == BitAnd(MASK_CHESSMAN, self.value)
         IN  CASE bits = 0 -> Some(team, "King")
               [] bits = 1 -> Some(team, "Queen")
               [] bits = 2 -> Some(team, "Bishop")
               [] bits = 3 -> Some(team, "Knight")
               [] bits = 4 -> Some(team, "Rook")
               [] bits = 5 -> Some(team, "Pawn")
               [] OTHER    -> Panic

\* Piece::data
Piece_data(self) ==
    IF BitAnd(self.value, MASK_UNOCCUPIED) # 0
    THEN None
    ELSE LET team == IF BitAnd(self.value, MASK_TEAM) = 0 THEN "White" ELSE "Black"
             bits == BitAnd(MASK_CHESSMAN, self.value)
         IN  CASE bits = 0 -> Some(team, "King")
               [] bits = 1 -> Some(team, "Queen")
               [] bits = 2 -> Some(team, "Bishop")
               [] bits = 3 -> Some(team, "Knight")
               [] bits = 4 -> Some(team, "Rook")
               [] bits = 5 -> Some(team, "Pawn")
               [] OTHER    -> Panic

\* mutant of Piece::default: the default piece is the empty piece
Piece_default_empty == Piece(MASK_UNOCCUPIED)

\* <Piece as Default>::default
Piece_default == Piece(0)

\* ---------------------------------------------------------- Coordinate ---

\* Result<Coordinate, Error>
Ok(v) == [tag |-> "Ok", value |-> v]

Err(e) == [tag |-> "Err", error |-> e]

\* mutant of Coordinate::rank
Coordinate_rank_mod(self) == self.value % BOARD_LENGTH

\* Coordinate::rank
Coordinate_rank(self) == self.value \div BOARD_LENGTH

\* Coordinate::file
Coordinate_file(self) == self.value % BOARD_LENGTH

\* rank * BOARD_LENGTH as u8 + file in u8 arithmetic: the set of outcomes
\* the builds produce (overflow panics with overflow checks, wraps without)
PairValue(rank, file) ==
    IF rank * BOARD_LENGTH + file < U8_MOD
    THEN {Ok(rank * BOARD_LENGTH + file)}
    ELSE {Panic, Ok((rank * BOARD_LENGTH + file) % U8_MOD)}

\* mutants of TryFrom<(u8, u8)>
Coordinate_try_from_pair_le(rank, file) ==
    IF rank <= 8 /\ file <= 8
    THEN PairValue(rank, file)
    ELSE {Err("OutOfBoundsAxis")}

Coordinate_try_from_pair_post_hoc(rank, file) ==
    IF \E r \in PairValue(rank, file) : r.tag = "Ok" /\ r.value < NUM_TILES
    THEN PairValue(rank, file)
    ELSE {Err("OutOfBoundsAxis")}

Coordinate_try_from_pair_swapped(rank, file) ==
    IF rank < 8 /\ file < 8
    THEN PairValue(file, rank)
    ELSE {Err("OutOfBoundsAxis")}

\* <Coordinate as TryFrom<(u8, u8)>>::try_from: the set of outcomes
Coordinate_try_from_pair(rank, file) ==
    IF rank < 8 /\ file < 8
    THEN PairValue(rank, file)
    ELSE {Err("OutOfBoundsAxis")}

\* mutants of TryFrom<u8>
Coordinate_try_from_index_le(value) ==
    IF value <= NUM_TILES % U8_MOD
    THEN Ok(value)
    ELSE Err("OutOfBoundsIndex")

\* <Coordinate as TryFrom<u8>>::try_from
Coordinate_try_from_index(value) ==
    IF value < NUM_TILES % U8_MOD
    THEN Ok(value)
    ELSE Err("OutOfBoundsIndex")

\* ---------------------------------------------------------------- state ---

VARIABLES
    input,    \* the argument the caller holds
    piece,    \* the Piece built from it, NoPiece before
    decoded,  \* what piece.data() returned
    byPair,   \* what Coordinate::try_from((rank, file)) returned
    byIndex,  \* what Coordinate::try_from(linear) returned
    linear,   \* the index handed to Coordinate::try_from(u8), NoIndex before
    access,   \* rank() and file() of one of the coordinates
    rebuilt   \* Coordinate::try_from((c.rank(), c.file()))

vars == <<input, piece, decoded, byPair, byIndex, linear, access, rebuilt>>

NoIndex == 0 - 1

OccupantInputs == {[kind |-> "occupant", occupant |-> o] : o \in Occupants}

DefaultInputs == {[kind |-> "default"]}

PairInputs == {[kind |-> "pair", rank |-> r, file |-> f] : r \in U8, f \in U8}

IndexInputs == {[kind |-> "index", index |-> i] : i \in U8}

RawInputs == {[kind |-> "raw", value |-> v] : v \in U8}

Blank ==
    /\ piece = NoPiece
    /\ decoded = NotCalled
    /\ byPair = NotCalled
    /\ byIndex = NotCalled
    /\ linear = NoIndex
    /\ access = NotCalled
    /\ rebuilt = NotCalled

Init ==
    /\ input \in OccupantInputs \cup DefaultInputs \cup PairInputs \cup IndexInputs
    /\ Blank

\* let piece = Piece::new(occupant)
PieceNew ==
    /\ input.kind = "occupant"
    /\ piece = NoPiece
    /\ piece' = Piece_new(input.occupant)
    /\ UNCHANGED <<input, decoded, byPair, byIndex, linear, access, rebuilt>>

\* let piece = Piece::default()
PieceDefault ==
    /\ input.kind = "default"
    /\ piece = NoPiece
    /\ piece' = Piece_default
    /\ UNCHANGED <<input, decoded, byPair, byIndex, linear, access, rebuilt>>

\* let piece = Piece { value }: any byte the field can hold
PieceRaw ==
    /\ input.kind = "raw"
    /\ piece = NoPiece
    /\ piece' = Piece(input.value)
    /\ UNCHANGED <<input, decoded, byPair, byIndex, linear, access, rebuilt>>

\* piece.data()
PieceData ==
    /\ piece # NoPiece
    /\ decoded = NotCalled
    /\ decoded' = Piece_data(piece)
    /\ UNCHANGED <<input, piece, byPair, byIndex, linear, access, rebuilt>>

\* Coordinate::try_from((rank, file))
TryFromPair ==
    /\ input.kind = "pair"
    /\ byPair = NotCalled
    /\ byPair' \in Coordinate_try_from_pair(input.rank, input.file)
    /\ UNCHANGED <<input, piece, decoded, byIndex, linear, access, rebuilt>>

\* Coordinate::try_from(index)
TryFromIndex ==
    /\ input.kind = "index"
    /\ byIndex = NotCalled
    /\ linear' = input.index
    /\ byIndex' = Coordinate_try_from_index(input.index)
    /\ UNCHANGED <<input, piece, decoded, byPair, access, rebuilt>>

\* test_coordinate, for rank and file in 0..=BOARD_LENGTH:
\* let index = (rank * BOARD_LENGTH as u8) | file; Coordinate::try_from(index)
TestIndex ==
    /\ input.kind = "pair"
    /\ input.rank \in 0 .. BOARD_LENGTH
    /\ input.file \in 0 .. BOARD_LENGTH
    /\ byIndex = NotCalled
    /\ linear' = BitOr(input.rank * BOARD_LENGTH, input.file)
    /\ byIndex' = Coordinate_try_from_index(linear')
    /\ UNCHANGED <<input, piece, decoded, byPair, access, rebuilt>>

\* c.rank() and c.file() of a coordinate a constructor returned
CoordAccess ==
    /\ access = NotCalled
    /\ \E from \in {"pair", "index"} :
         LET res == IF from = "pair" THEN byPair ELSE byIndex
         IN  /\ res.tag = "Ok"
             /\ access' = [tag  |-> "Called",
                           from |-> from,
                           rank |-> Coordinate_rank(res),
                           file |-> Coordinate_file(res)]
    /\ UNCHANGED <<input, piece, decoded, byPair, byIndex, linear, rebuilt>>

\* Coordinate::try_from((c.rank(), c.file()))
Rebuild ==
    /\ access.tag = "Called"
    /\ rebuilt = NotCalled
    /\ rebuilt' \in Coordinate_try_from_pair(access.rank, access.file)
    /\ UNCHANGED <<input, piece, decoded, byPair, byIndex, linear, access>>

Next ==
    \/ PieceNew
    \/ PieceDefault
    \/ PieceData
    \/ TryFromPair
    \/ TryFromIndex
    \/ TestIndex
    \/ CoordAccess
    \/ Rebuild

Spec == Init /\ [][Next]_vars

\* every byte a Piece can hold, decoded
InitRaw ==
    /\ input \in RawInputs
    /\ Blank

NextRaw ==
    \/ PieceRaw
    \/ PieceData

SpecRaw == InitRaw /\ [][NextRaw]_vars

\* --------------------------------------------------------------- claims ---

\* the chessmen in the order of their 3-bit codes 0..5
ChessmanOrder == <<"King", "Queen", "Bishop", "Knight", "Rook", "Pawn">>

\* C1: decoding the piece built from any of the 13 arguments of Piece::new
\* gives that argument back: Piece::new(o).data() == o.
C1_RoundTrip ==
    (input.kind = "occupant" /\ decoded # NotCalled) => decoded = input.occupant

C1_Witness ==
    /\ input.kind = "occupant"
    /\ input.occupant = Some("Black", "Pawn")
    /\ decoded = Some("Black", "Pawn")

\* C2: try_from((rank, file)) is Ok iff rank < 8 and file < 8 and is
\* Err(OutOfBoundsAxis) otherwise; on Ok the value is rank * 8 + file and
\* rank() and file() give rank and file back.
C2_PairValidity ==
    (input.kind = "pair" /\ byPair # NotCalled) =>
        /\ byPair.tag = "Ok" <=> (input.rank < 8 /\ input.file < 8)
        /\ ~(input.rank < 8 /\ input.file < 8) => byPair = Err("OutOfBoundsAxis")
        /\ byPair.tag = "Ok" => byPair.value = input.rank * 8 + input.file
        /\ (access.tag = "Called" /\ access.from = "pair") =>
               /\ access.rank = input.rank
               /\ access.file = input.file

C2_Witness ==
    /\ input.kind = "pair"
    /\ input.rank = 7
    /\ input.file = 6
    /\ byPair = Ok(62)
    /\ access.tag = "Called"
    /\ access.from = "pair"

\* C3: try_from(index) is Ok iff index < 64 and is Err(OutOfBoundsIndex)
\* otherwise; on Ok the index is stored verbatim, rank() is index / 8 and
\* file() is index % 8.
C3_IndexValidity ==
    byIndex # NotCalled =>
        /\ byIndex.tag = "Ok" <=> linear < 64
        /\ ~(linear < 64) => byIndex = Err("OutOfBoundsIndex")
        /\ byIndex.tag = "Ok" => byIndex.value = linear
        /\ (access.tag = "Called" /\ access.from = "index") =>
               /\ access.rank = linear \div 8
               /\ access.file = linear % 8

C3_Witness ==
    /\ input.kind = "index"
    /\ input.index = 63
    /\ byIndex = Ok(63)
    /\ access.tag = "Called"
    /\ access.from = "index"
    /\ access.rank = 7
    /\ access.file = 7

\* C4: every Coordinate a constructor returns holds a value in 0..63, and
\* its rank() and file() are below 8.
C4_CoordinateRange ==
    /\ byPair.tag = "Ok" => byPair.value \in 0 .. 63
    /\ byIndex.tag = "Ok" => byIndex.value \in 0 .. 63
    /\ rebuilt.tag = "Ok" => rebuilt.value \in 0 .. 63
    /\ access.tag = "Called" => (access.rank \in 0 .. 7 /\ access.file \in 0 .. 7)

C4_Witness ==
    /\ input.kind = "index"
    /\ byIndex = Ok(63)
    /\ access.tag = "Called"
    /\ rebuilt = Ok(63)

\* C5: Piece::new(None) is the byte 0b11110000; Piece::new(Some((team,
\* chessman))) is (team_bit << 3) | chessman_bits with bits 4-7 clear; so
\* Piece::new produces one of 13 bytes and no other.
C5_NewBitPatterns ==
    (input.kind = "occupant" /\ piece # NoPiece) =>
        /\ input.occupant = None => piece.value = 2^7 + 2^6 + 2^5 + 2^4
        /\ input.occupant.tag = "Some" =>
               /\ piece.value = TeamAsU8(input.occupant.team) * 2^3
                                + ChessmanAsU8(input.occupant.chessman)
               /\ TeamAsU8(input.occupant.team) \in {0, 1}
               /\ ChessmanAsU8(input.occupant.chessman) \in 0 .. 5
               /\ piece.value \div 2^4 = 0
        /\ piece.value \in {240} \cup (0 .. 5) \cup (8 .. 13)

C5_Witness ==
    /\ input.kind = "occupant"
    /\ input.occupant = Some("Black", "Rook")
    /\ piece.value = 12

\* C6: data() of a Piece from Piece::new or Piece::default() returns a
\* value; the panic branch for chessman bits 6 and 7 is never reached.
C6_DecodeTotal ==
    (input.kind \in {"occupant", "default"} /\ decoded # NotCalled) =>
        decoded.tag \in {"None", "Some"}

C6_Witness ==
    /\ input.kind = "occupant"
    /\ piece.value = 13
    /\ decoded.tag = "Some"

\* C7: the default Piece is the all-zero byte and decodes to (White, King);
\* it is another byte than the empty piece Piece::new(None) and decodes to
\* another value.
C7_DefaultIsWhiteKing ==
    (input.kind = "default" /\ piece # NoPiece) =>
        /\ piece.value = 0
        /\ piece # Piece_new(None)
        /\ decoded # NotCalled =>
               /\ decoded = Some("White", "King")
               /\ decoded # Piece_data(Piece_new(None))

C7_Witness ==
    /\ input.kind = "default"
    /\ piece.value = 0
    /\ decoded = Some("White", "King")

\* C8: pair construction fails only with OutOfBoundsAxis, index
\* construction only with OutOfBoundsIndex; a pair with rank >= 8 or
\* file >= 8 is Err(OutOfBoundsAxis) even when rank * 8 + file < 64.
C8_ErrorKinds ==
    /\ byPair.tag = "Err" => byPair.error = "OutOfBoundsAxis"
    /\ rebuilt.tag = "Err" => rebuilt.error = "OutOfBoundsAxis"
    /\ byIndex.tag = "Err" => byIndex.error = "OutOfBoundsIndex"
    /\ (/\ input.kind = "pair"
        /\ byPair # NotCalled
        /\ (input.rank >= 8 \/ input.file >= 8)) => byPair = Err("OutOfBoundsAxis")

C8_Witness ==
    /\ input.kind = "pair"
    /\ input.rank = 0
    /\ input.file = 8
    /\ input.rank * 8 + input.file < 64
    /\ byPair = Err("OutOfBoundsAxis")

\* C9: for every byte a Piece can hold, data() returns None iff one of bits
\* 4-7 is set; with bits 4-7 clear and bits 0-2 in 0..5 it returns the team
\* of bit 3 (0 is White) and the chessman of bits 0-2 in the order King,
\* Queen, Bishop, Knight, Rook, Pawn.
C9_OccupancyTest ==
    (input.kind = "raw" /\ decoded # NotCalled) =>
        /\ decoded = None <=> piece.value \div 2^4 # 0
        /\ (piece.value \div 2^4 = 0 /\ piece.value % 2^3 \in 0 .. 5) =>
               decoded = Some(IF (piece.value \div 2^3) % 2 = 0 THEN "White" ELSE "Black",
                              ChessmanOrder[(piece.value % 2^3) + 1])

C9_Witness ==
    /\ input.kind = "raw"
    /\ piece.value = 48
    /\ decoded = None

\* C10: for rank, file < 8 the pair constructor and the index constructor
\* at rank * 8 + file return the same Coordinate; rebuilding a Coordinate
\* from its rank() and file() gives it back; rank() and file() of a pair's
\* Coordinate give the pair back, so distinct pairs give distinct
\* Coordinates; rank * 8 + file never overflows u8.
C10_PairIndexBijection ==
    /\ (/\ input.kind = "pair"
        /\ input.rank < 8
        /\ input.file < 8
        /\ byPair # NotCalled
        /\ byIndex # NotCalled
        /\ linear = input.rank * 8 + input.file) => byPair = byIndex
    /\ rebuilt # NotCalled =>
           rebuilt = (IF access.from = "pair" THEN byPair ELSE byIndex)
    /\ (input.kind = "pair" /\ access.tag = "Called" /\ access.from = "pair") =>
           (access.rank = input.rank /\ access.file = input.file)
    /\ byPair.tag # "Panic"
    /\ rebuilt.tag # "Panic"
    /\ byPair.tag = "Ok" => input.rank * 8 + input.file < 2^8

C10_Witness ==
    /\ input.kind = "pair"
    /\ input.rank = 5
    /\ input.file = 3
    /\ byPair = Ok(43)
    /\ byIndex = Ok(43)
    /\ linear = 43
    /\ access.tag = "Called"
    /\ rebuilt = Ok(43)

====
